---- MODULE Spec2Model ----
(***************************************************************************)
(* SMBToAPI (src/app.py): a Flask gateway in front of one process-wide     *)
(* pysmb session.  The model has one process per concurrently served       *)
(* request.  A request runs its handler line by line: every read or write  *)
(* of the global SMB_CONNECTION and every blocking pysmb call is one step, *)
(* so that the threads of the development server (app.run, line 503)       *)
(* interleave exactly where the interpreter can switch threads.            *)
(*                                                                         *)
(* Strings are sequences of one-character strings, byte strings are        *)
(* sequences of numbers 0..255.                                            *)
(***************************************************************************)
EXTENDS Integers, Sequences, FiniteSets, TLC

(***************************************************************************)
(* Bounds of the model.                                                    *)
(***************************************************************************)
\* number of request threads served at the same time
NumReq == 2
\* number of distinct SMBConnection objects alive at the same time
MaxSessions == 2
\* longest path the path-resolver specification draws
MaxPathLen == 6
\* longest enumeration the list-loop specification draws
MaxListLen == 3

Req == 1..NumReq
Sid == 1..MaxSessions
\* Python's None, as the value of SMB_CONNECTION and of the local conn
None == 0

(***************************************************************************)
(* Strings.                                                                *)
(***************************************************************************)
RECURSIVE LStrip(_, _)
\* str.lstrip(c): drop every leading c
LStrip(s, c) ==
    IF s # <<>> /\ Head(s) = c THEN LStrip(Tail(s), c) ELSE s

\* a plausible slip: only the first separator is dropped
LStripOnce(s, c) ==
    IF s # <<>> /\ Head(s) = c THEN Tail(s) ELSE s

RECURSIVE RStrip(_, _)
\* str.rstrip(c): drop every trailing c
RStrip(s, c) ==
    IF s # <<>> /\ s[Len(s)] = c THEN RStrip(SubSeq(s, 1, Len(s) - 1), c) ELSE s

\* SMB_CONFIG["share_path_prefix"]
share_path_prefix == <<"/">>

\* _full_smb_path with the slip above
full_smb_path_once(relative_path) ==
    LET rel == IF relative_path # <<>> THEN LStripOnce(relative_path, "/") ELSE <<>>
    IN  IF share_path_prefix # <<>>
        THEN RStrip(share_path_prefix, "/") \o <<"/">> \o rel
        ELSE rel

\* _full_smb_path(relative_path)
full_smb_path(relative_path) ==
    LET rel == IF relative_path # <<>> THEN LStrip(relative_path, "/") ELSE <<>>
    IN  IF share_path_prefix # <<>>
        THEN RStrip(share_path_prefix, "/") \o <<"/">> \o rel
        ELSE rel

\* str.lower() on the characters the model uses
LowerChar(c) ==
    CASE c = "T" -> "t"
      [] c = "X" -> "x"
      [] OTHER -> c

Lower(s) == [i \in 1..Len(s) |-> LowerChar(s[i])]

\* str.endswith(suffix)
EndsWith(s, suffix) ==
    /\ Len(s) >= Len(suffix)
    /\ SubSeq(s, Len(s) - Len(suffix) + 1, Len(s)) = suffix

\* the extensions get_file serves as text; of the four, ".txt" is in the
\* model's paths
TextSuffixes == { <<".", "t", "x", "t">>, <<".", "l", "o", "g">>,
                  <<".", "c", "s", "v">>, <<".", "j", "s", "o", "n">> }

IsTextPath(path) == \E suf \in TextSuffixes : EndsWith(Lower(path), suf)

(***************************************************************************)
(* Bytes: bytes.decode("utf-8") and the encoding of a str response body.   *)
(* One- and two-byte forms are modelled; every other lead byte of the      *)
(* model's alphabet (255) is invalid in UTF-8.                             *)
(***************************************************************************)
DecodeError == <<-1>>

RECURSIVE Utf8Decode(_)
\* the code points of b, or DecodeError (UnicodeDecodeError)
Utf8Decode(b) ==
    IF b = <<>> THEN <<>>
    ELSE IF b[1] < 128
         THEN LET rest == Utf8Decode(Tail(b))
              IN IF rest = DecodeError THEN DecodeError ELSE <<b[1]>> \o rest
    ELSE IF b[1] >= 194 /\ b[1] <= 223 /\ Len(b) >= 2 /\ b[2] >= 128 /\ b[2] <= 191
         THEN LET rest == Utf8Decode(SubSeq(b, 3, Len(b)))
              IN IF rest = DecodeError THEN DecodeError
                 ELSE <<(b[1] - 192) * 64 + (b[2] - 128)>> \o rest
    ELSE DecodeError

RECURSIVE Utf8Encode(_)
\* the bytes of a str of code points below 2048
Utf8Encode(s) ==
    IF s = <<>> THEN <<>>
    ELSE IF s[1] < 128 THEN <<s[1]>> \o Utf8Encode(Tail(s))
    ELSE <<192 + (s[1] \div 64), 128 + (s[1] % 64)>> \o Utf8Encode(Tail(s))

(***************************************************************************)
(* Inputs of the requests.                                                 *)
(***************************************************************************)
\* client-supplied paths: "a.txt", "/a.txt" and "b"
RawPaths == { <<"a", ".", "t", "x", "t">>, <<"/", "a", ".", "t", "x", "t">>, <<"b">> }

\* request bodies: b"", b"A" and b"\xff"
Bodies == { <<>>, <<65>>, <<255>> }

\* the locations of the remote share the requests can name
Locations == { full_smb_path(p) : p \in RawPaths }

\* what the share holds at a location
Absent == [kind |-> "absent", data |-> <<>>]
Dir == [kind |-> "dir", data |-> <<>>]
File(b) == [kind |-> "file", data |-> b]

\* the proper prefixes of a byte string: what a failed write can leave
Prefixes(b) == { SubSeq(b, 1, n) : n \in 0..(Len(b) - 1) }

\* "no such body", as a value of the history variables
NoBody == <<-1>>

VARIABLES
    SMB_CONNECTION,   \* the global: None or the current session
    open,             \* sessions connected and not yet closed
    fs,               \* the remote share: Location -> entry
    fresh,            \* history: per location, the body the last successful
                      \* Create(file) wrote there, NoBody once anything else
                      \* has written, renamed or deleted the location
    req,              \* per request thread: position and locals
    pin,              \* path-resolver specification: the input
    pout              \* path-resolver specification: the results so far

vars == <<SMB_CONNECTION, open, fs, fresh, req, pin, pout>>

\* an exception as the handlers see it: the call that raised it and its type
Cause(prim, res) == [prim |-> prim, res |-> res]
NoCause == Cause("none", "none")

\* a request thread between two requests
Idle ==
    [pc |-> "idle", op |-> "none", path |-> <<>>, newPath |-> <<>>,
     isDir |-> FALSE, body |-> <<>>,
     conn |-> None, newconn |-> None, buf |-> <<>>, ferr |-> NoCause,
     status |-> 0, kind |-> "none", cause1 |-> NoCause, cause2 |-> NoCause,
     data |-> <<>>,
     calls |-> <<>>, nconn |-> 0, probed |-> None,
     want |-> NoBody, pre |-> Absent, preDst |-> Absent,
     missing |-> FALSE, matched |-> None]

(***************************************************************************)
(* Initial state: the module has been imported (SMB_CONNECTION is None)    *)
(* and the start-up get_smb_connection() of the main block has either      *)
(* connected the first session or failed and been logged.                  *)
(***************************************************************************)
InitGateway ==
    /\ \/ SMB_CONNECTION = None /\ open = {}
       \/ SMB_CONNECTION = 1 /\ open = {1}
    /\ fs = [l \in Locations |-> Absent]
    /\ fresh = [l \in Locations |-> NoBody]
    /\ req = [r \in Req |-> Idle]

Init ==
    /\ InitGateway
    /\ pin = <<>>
    /\ pout = <<>>

(***************************************************************************)
(* Helpers of the actions.                                                 *)
(***************************************************************************)
\* history: the primitive call prim ended with res
Log(rq, prim, res) == [rq EXCEPT !.calls = Append(@, [prim |-> prim, res |-> res])]

\* the handler's "except Exception as e: return jsonify(error=str(e)), 500"
Fail(rq, kind, cause) ==
    [rq EXCEPT !.pc = "td_check", !.status = 500, !.kind = kind, !.cause1 = cause]

\* the handler that get_smb_connection() handed a session returns: its
\* locals are gone, and the history of its acquire ends
Returned(rq) ==
    [rq EXCEPT !.conn = None, !.newconn = None, !.buf = <<>>, !.ferr = NoCause,
               !.nconn = 0, !.probed = None]

\* a plausible slip: the exception is logged and the handler answers success
RaisedAsSuccess(rq, prim, e) ==
    [Log(rq, prim, e) EXCEPT !.pc = "td_check", !.status = 200, !.kind = "success"]

\* a pysmb call of a handler raised e and the handler's outer except caught it
Raised(rq, prim, e) ==
    Fail(Returned(Log(rq, prim, e)), "RemoteOperationError", Cause(prim, e))

\* "return jsonify({"status": "success"})" and the other 200 responses
Succeed(rq, payload) ==
    [Returned(rq) EXCEPT !.pc = "td_check", !.status = 200, !.kind = "success",
                         !.data = payload]

\* what a pysmb call on the local conn raises before it reaches the server:
\* AttributeError on None, NotConnectedError on a closed session
CallFault(rq) ==
    IF rq.conn = None THEN "AttributeError"
    ELSE IF rq.conn \notin open THEN "NotConnectedError"
    ELSE "none"

\* the session ids no thread and no variable refers to
FreeSids ==
    { s \in Sid :
        /\ s \notin open
        /\ s # SMB_CONNECTION
        /\ \A q \in Req : s \notin {req[q].conn, req[q].newconn, req[q].probed} }

\* the first pysmb call of an operation
FirstCall(rq) ==
    CASE rq.op = "list" -> "listPath"
      [] rq.op = "create" -> IF rq.isDir THEN "createDirectory" ELSE "storeFile"
      [] rq.op = "get" -> "retrieveFile"
      [] rq.op = "rename" -> "rename"
      [] rq.op = "copy" -> "copy_retrieve"
      [] rq.op = "move" -> "move_retrieve"
      [] rq.op = "delete" -> "deleteFiles"

\* the thread with the parameters rq, about to issue its first pysmb call
FirstCallOf(rq) == [rq EXCEPT !.pc = FirstCall(rq)]

(***************************************************************************)
(* get_smb_connection(), lines 54-120.  It takes no argument and reads     *)
(* nothing of the request, so a thread inside it is the same whichever     *)
(* handler called it: the thread's record takes the request's parameters   *)
(* when the call has returned (StartX below).                              *)
(***************************************************************************)
\* the routes that work on the share
Ops == {"list", "create", "get", "rename", "copy", "move", "delete"}

\* the parameters the interface requires of a request: share_name always,
\* path except for List, newPath for Rename, Copy and Move (history: what
\* the record's field missing stands for)
LacksRequired(op, hasPath, hasNewPath, hasShare) ==
    \/ ~hasShare
    \/ op # "list" /\ ~hasPath
    \/ op \in {"rename", "copy", "move"} /\ ~hasNewPath

\* a plausible slip: the handlers check their paths and not share_name
RejectsPathsOnly(op, hasPath, hasNewPath, hasShare) ==
    CASE op = "list" -> FALSE
      [] op \in {"create", "get", "delete"} -> ~hasPath
      [] op \in {"rename", "copy", "move"} -> ~hasPath \/ ~hasNewPath

\* the "if not ...: return ..., 400" checks at the head of each handler
\* (lines 151, 198-201, 239-242, 283-286, 320-323, 361-367, 429-435); an
\* absent parameter is None and an empty one is "", both are false; Rename
\* and Copy take theirs from the JSON body, and a body without any is
\* rejected like one without path (lines 276-277, 313-314)
Rejects(op, hasPath, hasNewPath, hasShare) ==
    CASE op = "list" -> ~hasShare
      [] op \in {"create", "get", "delete"} -> ~hasPath \/ ~hasShare
      [] op \in {"rename", "copy", "move"} -> ~hasPath \/ ~hasNewPath \/ ~hasShare

\* lines 139-142: hello() answers without get_smb_connection()
Hello(r) ==
    /\ req[r].pc = "idle"
    /\ req' = [req EXCEPT ![r] =
                 [Idle EXCEPT !.pc = "td_check", !.op = "hello", !.status = 200,
                              !.kind = "success"]]
    /\ UNCHANGED <<SMB_CONNECTION, open, fs, fresh, pin, pout>>

\* a request has arrived and its handler answers 400 ahead of its try block
Reject(r) ==
    /\ req[r].pc = "idle"
    /\ \E op \in Ops, hasPath \in BOOLEAN, hasNewPath \in BOOLEAN, hasShare \in BOOLEAN :
         /\ Rejects(op, hasPath, hasNewPath, hasShare)
         /\ req' = [req EXCEPT ![r] =
                      [Idle EXCEPT !.pc = "td_check", !.op = op, !.status = 400,
                                   !.kind = "ValidationError",
                                   !.missing = LacksRequired(op, hasPath, hasNewPath, hasShare)]]
    /\ UNCHANGED <<SMB_CONNECTION, open, fs, fresh, pin, pout>>

\* lines 163, 206, 247, 292, 329, 373 and 440: a request has arrived, has
\* passed the checks of its handler, and the handler calls
\* get_smb_connection()
Enter(r) ==
    /\ req[r].pc = "idle"
    /\ \E op \in Ops, hasPath \in BOOLEAN, hasNewPath \in BOOLEAN, hasShare \in BOOLEAN :
         /\ ~Rejects(op, hasPath, hasNewPath, hasShare)
         /\ req' = [req EXCEPT ![r].pc = "check",
                               ![r].missing = LacksRequired(op, hasPath, hasNewPath, hasShare)]
    /\ UNCHANGED <<SMB_CONNECTION, open, fs, fresh, pin, pout>>

\* line 60: if SMB_CONNECTION is not None
AcqCheck(r) ==
    /\ req[r].pc = "check"
    /\ req' = [req EXCEPT ![r].pc = IF SMB_CONNECTION # None THEN "echo" ELSE "connect"]
    /\ UNCHANGED <<SMB_CONNECTION, open, fs, fresh, pin, pout>>

\* lines 62-64 and the except clauses' entry: the health probe
AcqEcho(r) ==
    /\ req[r].pc = "echo"
    /\ LET g == SMB_CONNECTION IN
       IF g = None \/ g \notin open
       THEN \* AttributeError on None, NotConnectedError on a closed session:
            \* both reach "except Exception" (line 84)
            req' = [req EXCEPT ![r].pc = "exc_check", ![r].probed = g]
       ELSE \/ req' = [req EXCEPT ![r].pc = "reuse", ![r].matched = g]
            \/ req' = [req EXCEPT ![r].pc = "mis_close", ![r].probed = g]
            \/ req' = [req EXCEPT ![r].pc = "h_close", ![r].probed = g]
            \/ req' = [req EXCEPT ![r].pc = "exc_check", ![r].probed = g]
    /\ UNCHANGED <<SMB_CONNECTION, open, fs, fresh, pin, pout>>

\* line 75: return SMB_CONNECTION (the history of the probe ends here)
AcqReuse(r) ==
    /\ req[r].pc = "reuse"
    /\ req' = [req EXCEPT ![r].conn = SMB_CONNECTION, ![r].pc = "acquired",
                          ![r].matched = None]
    /\ UNCHANGED <<SMB_CONNECTION, open, fs, fresh, pin, pout>>

\* line 69: SMB_CONNECTION.close() inside the try
AcqMisClose(r) ==
    /\ req[r].pc = "mis_close"
    /\ IF SMB_CONNECTION = None
       THEN /\ req' = [req EXCEPT ![r].pc = "exc_check"]
            /\ UNCHANGED open
       ELSE /\ open' = open \ {SMB_CONNECTION}
            /\ req' = [req EXCEPT ![r].pc = "clear"]
    /\ UNCHANGED <<SMB_CONNECTION, fs, fresh, pin, pout>>

\* line 90: if SMB_CONNECTION
AcqExcCheck(r) ==
    /\ req[r].pc = "exc_check"
    /\ req' = [req EXCEPT ![r].pc = IF SMB_CONNECTION # None THEN "h_close" ELSE "clear"]
    /\ UNCHANGED <<SMB_CONNECTION, open, fs, fresh, pin, pout>>

\* lines 82 and 91: SMB_CONNECTION.close() inside an except clause; an
\* AttributeError here leaves get_smb_connection and reaches the handler
AcqHandlerClose(r) ==
    /\ req[r].pc = "h_close"
    /\ IF SMB_CONNECTION = None
       THEN /\ req' = [req EXCEPT ![r] = Fail(@, "AttributeError", Cause("close", "AttributeError"))]
            /\ UNCHANGED open
       ELSE /\ open' = open \ {SMB_CONNECTION}
            /\ req' = [req EXCEPT ![r].pc = "clear"]
    /\ UNCHANGED <<SMB_CONNECTION, fs, fresh, pin, pout>>

\* lines 70, 83 and 92: SMB_CONNECTION = None
AcqClear(r) ==
    /\ req[r].pc = "clear"
    /\ SMB_CONNECTION' = None
    /\ req' = [req EXCEPT ![r].pc = "connect"]
    /\ UNCHANGED <<open, fs, fresh, pin, pout>>

\* lines 104-114, success: a new SMBConnection is connected
AcqConnectOk(r) ==
    /\ req[r].pc = "connect"
    /\ FreeSids # {}
    /\ LET s == CHOOSE x \in FreeSids : \A y \in FreeSids : x <= y IN
       /\ open' = open \cup {s}
       /\ req' = [req EXCEPT ![r].newconn = s, ![r].nconn = @ + 1, ![r].pc = "assign"]
    /\ UNCHANGED <<SMB_CONNECTION, fs, fresh, pin, pout>>

\* lines 104-120, failure: the exception is logged and re-raised
AcqConnectFail(r) ==
    /\ req[r].pc = "connect"
    /\ req' = [req EXCEPT ![r] = Fail([@ EXCEPT !.nconn = @ + 1],
                                       "ConnectionError", Cause("connect", "ConnectionError"))]
    /\ UNCHANGED <<SMB_CONNECTION, open, fs, fresh, pin, pout>>

\* line 115: SMB_CONNECTION = conn
AcqAssign(r) ==
    /\ req[r].pc = "assign"
    /\ SMB_CONNECTION' = req[r].newconn
    /\ req' = [req EXCEPT ![r].pc = "return"]
    /\ UNCHANGED <<open, fs, fresh, pin, pout>>

\* line 117: return SMB_CONNECTION
AcqReturn(r) ==
    /\ req[r].pc = "return"
    /\ req' = [req EXCEPT ![r].conn = SMB_CONNECTION, ![r].pc = "acquired"]
    /\ UNCHANGED <<SMB_CONNECTION, open, fs, fresh, pin, pout>>

(***************************************************************************)
(* The remote share behind an open session.  A pysmb call that reaches the *)
(* server either takes effect and returns, or raises OperationFailure and  *)
(* leaves the share as it was; only a failed storeFile may leave a         *)
(* truncated file behind.                                                  *)
(***************************************************************************)
\* the file name of a location: the location without its leading "/"
NameOf(loc) == Tail(loc)

RECURSIVE SeqOf(_)
\* the elements of a finite set in some fixed order
SeqOf(S) ==
    IF S = {} THEN <<>>
    ELSE LET x == CHOOSE y \in S : TRUE IN <<x>> \o SeqOf(S \ {x})

\* what listPath enumerates at loc: "." and "..", then the entries
Listing(loc) ==
    <<[filename |-> <<".">>, isDirectory |-> TRUE],
      [filename |-> <<".", ".">>, isDirectory |-> TRUE]>>
    \o (IF loc = <<"/">>
        THEN SeqOf({ [filename |-> NameOf(l), isDirectory |-> fs[l].kind = "dir"] :
                       l \in { x \in Locations : fs[x].kind # "absent" } })
        ELSE <<>>)

\* listPath succeeds on the root and on directories
CanList(loc) == loc = <<"/">> \/ (loc \in Locations /\ fs[loc].kind = "dir")

\* a plausible slip: every name that starts with a dot is skipped
ListEntriesNoDotNames(file_list) ==
    LET keep(item) == item.filename = <<>> \/ Head(item.filename) # "."
    IN  [i \in 1..Len(SelectSeq(file_list, keep)) |->
            [name |-> SelectSeq(file_list, keep)[i].filename,
             is_dir |-> SelectSeq(file_list, keep)[i].isDirectory]]

\* lines 165-183: the loop over file_list that skips "." and ".."
ListEntries(file_list) ==
    LET keep(item) == item.filename \notin {<<".">>, <<".", ".">>}
    IN  [i \in 1..Len(SelectSeq(file_list, keep)) |->
            [name |-> SelectSeq(file_list, keep)[i].filename,
             is_dir |-> SelectSeq(file_list, keep)[i].isDirectory]]

\* fs and fresh after content b is stored at loc; by is the request body
\* when the store is Create's, NoBody otherwise
Stored(loc, b, by) ==
    /\ fs' = [fs EXCEPT ![loc] = File(b)]
    /\ fresh' = [fresh EXCEPT ![loc] = by]

\* fs and fresh after loc is removed
Removed(loc) ==
    /\ fs' = [fs EXCEPT ![loc] = Absent]
    /\ fresh' = [fresh EXCEPT ![loc] = NoBody]

(***************************************************************************)
(* The handlers.  StartX is the handler's reading of the request           *)
(* parameters and resolving of the paths, which the code does ahead of its *)
(* try block; the thread goes on to the handler's first pysmb call.        *)
(***************************************************************************)
\* lines 146-160
StartList(r, paths) ==
    /\ req[r].pc = "acquired"
    /\ \E p \in paths :
         req' = [req EXCEPT ![r] = FirstCallOf([@ EXCEPT !.op = "list", !.path = p])]
    /\ UNCHANGED <<SMB_CONNECTION, open, fs, fresh, pin, pout>>

\* lines 192-203: isDir=true ignores the body
StartCreate(r, paths, bodies) ==
    /\ req[r].pc = "acquired"
    /\ \E p \in paths :
         \/ req' = [req EXCEPT ![r] = FirstCallOf([@ EXCEPT !.op = "create",
                                         !.path = p, !.isDir = TRUE])]
         \/ \E b \in bodies :
              req' = [req EXCEPT ![r] = FirstCallOf([@ EXCEPT !.op = "create",
                                           !.path = p, !.isDir = FALSE, !.body = b])]
    /\ UNCHANGED <<SMB_CONNECTION, open, fs, fresh, pin, pout>>

\* lines 234-244
StartGet(r, paths) ==
    /\ req[r].pc = "acquired"
    /\ \E p \in paths :
         req' = [req EXCEPT ![r] = FirstCallOf([@ EXCEPT !.op = "get", !.path = p])]
    /\ UNCHANGED <<SMB_CONNECTION, open, fs, fresh, pin, pout>>

\* the handlers with a source and a destination, up to their try block;
\* with track, a Copy and a Move keep what the share holds at their source
\* and at their destination (history)
StartTwoPath(r, op, paths, track) ==
    /\ req[r].pc = "acquired"
    /\ \E p \in paths, n \in paths :
         req' = [req EXCEPT ![r] = FirstCallOf([@ EXCEPT !.op = op,
                                      !.path = p, !.newPath = n,
                                      !.pre = IF track /\ op \in {"copy", "move"}
                                              THEN fs[full_smb_path(p)]
                                              ELSE Absent,
                                      !.preDst = IF track /\ op \in {"copy", "move"}
                                                 THEN fs[full_smb_path(n)]
                                                 ELSE Absent])]
    /\ UNCHANGED <<SMB_CONNECTION, open, fs, fresh, pin, pout>>

\* lines 273-289
StartRename(r, paths) == StartTwoPath(r, "rename", paths, FALSE)

\* lines 310-326
StartCopy(r, paths, track) == StartTwoPath(r, "copy", paths, track)

\* lines 354-370
StartMove(r, paths, track) == StartTwoPath(r, "move", paths, track)

\* lines 423-437
StartDelete(r, paths) ==
    /\ req[r].pc = "acquired"
    /\ \E p \in paths :
         req' = [req EXCEPT ![r] = FirstCallOf([@ EXCEPT !.op = "delete", !.path = p])]
    /\ UNCHANGED <<SMB_CONNECTION, open, fs, fresh, pin, pout>>

\* line 166 and the loop after it: conn.listPath(share_name, full_path)
ListPath(r) ==
    /\ req[r].pc = "listPath"
    /\ LET rq == req[r]
           loc == full_smb_path(rq.path)
           cf == CallFault(rq)
       IN  \/ /\ cf # "none"
              /\ req' = [req EXCEPT ![r] =
                           Raised(rq, "listPath", cf)]
           \/ /\ cf = "none"
              /\ req' = [req EXCEPT ![r] =
                           Raised(rq, "listPath", "OperationFailure")]
           \/ /\ cf = "none"
              /\ CanList(loc)
              /\ req' = [req EXCEPT ![r] =
                           Succeed(Log(rq, "listPath", "ok"), ListEntries(Listing(loc)))]
    /\ UNCHANGED <<SMB_CONNECTION, open, fs, fresh, pin, pout>>

\* line 215: conn.createDirectory(share_name, full_path)
CreateDirectory(r) ==
    /\ req[r].pc = "createDirectory"
    /\ LET rq == req[r]
           loc == full_smb_path(rq.path)
           cf == CallFault(rq)
       IN  \/ /\ cf # "none"
              /\ req' = [req EXCEPT ![r] =
                           Raised(rq, "createDirectory", cf)]
              /\ UNCHANGED <<fs, fresh>>
           \/ /\ cf = "none"
              /\ req' = [req EXCEPT ![r] =
                           Raised(rq, "createDirectory", "OperationFailure")]
              /\ UNCHANGED <<fs, fresh>>
           \/ /\ cf = "none"
              /\ fs[loc].kind = "absent"
              /\ fs' = [fs EXCEPT ![loc] = Dir]
              /\ fresh' = [fresh EXCEPT ![loc] = NoBody]
              /\ req' = [req EXCEPT ![r] = Succeed(Log(rq, "createDirectory", "ok"), <<>>)]
    /\ UNCHANGED <<SMB_CONNECTION, open, pin, pout>>

\* conn.storeFile(share_name, loc, BytesIO(content)) at position pcname:
\* on success the thread goes on at position next, or answers success when
\* the call was the handler's last (next is "done"); a fault ends the request
StoreFile(r, pcname, loc, content, by, next) ==
    /\ req[r].pc = pcname
    /\ LET rq == req[r]
           cf == CallFault(rq)
       IN  \/ /\ cf # "none"
              /\ req' = [req EXCEPT ![r] =
                           Raised(rq, "storeFile", cf)]
              /\ UNCHANGED <<fs, fresh>>
           \/ /\ cf = "none"
              /\ req' = [req EXCEPT ![r] =
                           Raised(rq, "storeFile", "OperationFailure")]
              /\ UNCHANGED <<fs, fresh>>
           \/ /\ cf = "none"
              /\ fs[loc].kind # "dir"
              /\ \E part \in Prefixes(content) : Stored(loc, part, NoBody)
              /\ req' = [req EXCEPT ![r] =
                           Raised(rq, "storeFile", "OperationFailure")]
           \/ /\ cf = "none"
              /\ fs[loc].kind # "dir"
              /\ Stored(loc, content, by)
              /\ req' = [req EXCEPT ![r] =
                           IF next = "done"
                           THEN Succeed(Log(rq, "storeFile", "ok"), <<>>)
                           ELSE [Log(rq, "storeFile", "ok") EXCEPT !.pc = next]]
    /\ UNCHANGED <<SMB_CONNECTION, open, pin, pout>>

\* lines 253-266: the response of get_file for the bytes read; a text path
\* is decoded, and the str is sent UTF-8 encoded
GetResponse(rq, file_content) ==
    IF IsTextPath(rq.path)
    THEN IF Utf8Decode(file_content) = DecodeError
         THEN Fail(Returned(rq), "UnicodeDecodeError",
                   Cause("decode", "UnicodeDecodeError"))
         ELSE Succeed(rq, Utf8Encode(Utf8Decode(file_content)))
    ELSE Succeed(rq, file_content)

\* conn.retrieveFile(share_name, loc, file_obj) at position pcname: on
\* success file_content is the file's bytes and the thread goes on at
\* position next, or answers with the bytes when the handler is get_file
\* (next is "done"); a fault ends the request
RetrieveFile(r, pcname, loc, next) ==
    /\ req[r].pc = pcname
    /\ LET rq == req[r]
           cf == CallFault(rq)
       IN  \/ /\ cf # "none"
              /\ req' = [req EXCEPT ![r] = Raised(rq, "retrieveFile", cf)]
           \/ /\ cf = "none"
              /\ req' = [req EXCEPT ![r] = Raised(rq, "retrieveFile", "OperationFailure")]
           \/ /\ cf = "none"
              /\ fs[loc].kind = "file"
              /\ LET got == [Log(rq, "retrieveFile", "ok") EXCEPT !.buf = fs[loc].data]
                 IN  req' = [req EXCEPT ![r] =
                               IF next = "done"
                               THEN GetResponse([got EXCEPT !.want = fresh[loc]],
                                                fs[loc].data)
                               ELSE [got EXCEPT !.pc = next]]
    /\ UNCHANGED <<SMB_CONNECTION, open, fs, fresh, pin, pout>>

\* lines 220-225: the file branch of create_file_or_directory
CreateStore(r) ==
    StoreFile(r, "storeFile", full_smb_path(req[r].path), req[r].body,
              req[r].body, "done")

\* lines 248-266
GetRetrieve(r) ==
    RetrieveFile(r, "retrieveFile", full_smb_path(req[r].path), "done")

\* lines 300-301: conn.rename(share_name, old_full_path, new_full_path)
Rename(r) ==
    /\ req[r].pc = "rename"
    /\ LET rq == req[r]
           old == full_smb_path(rq.path)
           new == full_smb_path(rq.newPath)
           cf == CallFault(rq)
       IN  \/ /\ cf # "none"
              /\ req' = [req EXCEPT ![r] =
                           Raised(rq, "rename", cf)]
              /\ UNCHANGED <<fs, fresh>>
           \/ /\ cf = "none"
              /\ req' = [req EXCEPT ![r] =
                           Raised(rq, "rename", "OperationFailure")]
              /\ UNCHANGED <<fs, fresh>>
           \/ /\ cf = "none"
              /\ fs[old].kind # "absent"
              /\ fs[new].kind = "absent"
              /\ fs' = [fs EXCEPT ![new] = fs[old], ![old] = Absent]
              /\ fresh' = [fresh EXCEPT ![new] = NoBody, ![old] = NoBody]
              /\ req' = [req EXCEPT ![r] = Succeed(Log(rq, "rename", "ok"), <<>>)]
    /\ UNCHANGED <<SMB_CONNECTION, open, pin, pout>>

\* lines 338-341
CopyRetrieve(r) ==
    RetrieveFile(r, "copy_retrieve", full_smb_path(req[r].path), "copy_store")

\* lines 343-347
CopyStore(r) ==
    StoreFile(r, "copy_store", full_smb_path(req[r].newPath), req[r].buf,
              NoBody, "done")

\* conn.deleteFiles(share_name, loc) at position pcname, inside the inner
\* try: a fault is kept as file_delete_error and the fallback comes next
DeleteFilesCall(r, pcname, loc, fallback) ==
    /\ req[r].pc = pcname
    /\ LET rq == req[r]
           cf == CallFault(rq)
           caught(e) == [Log(rq, "deleteFiles", e) EXCEPT !.ferr = Cause("deleteFiles", e),
                                                        !.pc = fallback]
       IN  \/ /\ cf # "none"
              /\ req' = [req EXCEPT ![r] = caught(cf)]
              /\ UNCHANGED <<fs, fresh>>
           \/ /\ cf = "none"
              /\ req' = [req EXCEPT ![r] = caught("OperationFailure")]
              /\ UNCHANGED <<fs, fresh>>
           \/ /\ cf = "none"
              /\ fs[loc].kind = "file"
              /\ Removed(loc)
              /\ req' = [req EXCEPT ![r] = Succeed(Log(rq, "deleteFiles", "ok"), <<>>)]
    /\ UNCHANGED <<SMB_CONNECTION, open, pin, pout>>

\* a plausible slip: the message is built from dir_delete_error alone
BothDeletesFailedDirOnly(rq, kind, dir_delete_error) ==
    [Fail(Returned(rq), kind, Cause("deleteDirectory", dir_delete_error))
       EXCEPT !.cause2 = Cause("deleteDirectory", dir_delete_error)]

\* the exception raised when both deletes failed (lines 411-413 and
\* 470-472): its message names file_delete_error and dir_delete_error
BothDeletesFailed(rq, kind, dir_delete_error) ==
    [Fail(Returned(rq), kind, rq.ferr) EXCEPT !.cause2 = Cause("deleteDirectory", dir_delete_error)]

\* conn.deleteDirectory(share_name, loc) at position pcname, the fallback
DeleteDirectoryCall(r, pcname, loc, kind) ==
    /\ req[r].pc = pcname
    /\ LET rq == req[r]
           cf == CallFault(rq)
       IN  \/ /\ cf # "none"
              /\ req' = [req EXCEPT ![r] =
                           BothDeletesFailed(Log(rq, "deleteDirectory", cf), kind, cf)]
              /\ UNCHANGED <<fs, fresh>>
           \/ /\ cf = "none"
              /\ req' = [req EXCEPT ![r] =
                           BothDeletesFailed(Log(rq, "deleteDirectory", "OperationFailure"),
                                             kind, "OperationFailure")]
              /\ UNCHANGED <<fs, fresh>>
           \/ /\ cf = "none"
              /\ fs[loc].kind = "dir"
              /\ Removed(loc)
              /\ req' = [req EXCEPT ![r] = Succeed(Log(rq, "deleteDirectory", "ok"), <<>>)]
    /\ UNCHANGED <<SMB_CONNECTION, open, pin, pout>>

\* lines 381-384
MoveRetrieve(r) ==
    RetrieveFile(r, "move_retrieve", full_smb_path(req[r].path), "move_store")

\* a plausible slip: the buffer is written back to the source path
MoveStoreAtSource(r) ==
    StoreFile(r, "move_store", full_smb_path(req[r].path), req[r].buf,
              NoBody, "move_deleteFiles")

\* lines 386-388
MoveStore(r) ==
    StoreFile(r, "move_store", full_smb_path(req[r].newPath), req[r].buf,
              NoBody, "move_deleteFiles")

\* lines 390-401 and 415
MoveDeleteFiles(r) ==
    DeleteFilesCall(r, "move_deleteFiles", full_smb_path(req[r].path),
                    "move_deleteDirectory")

\* lines 402-415
MoveDeleteDirectory(r) ==
    DeleteDirectoryCall(r, "move_deleteDirectory", full_smb_path(req[r].path),
                        "PartialMoveFailure")

\* lines 441-454 and 474
DeleteFiles(r) ==
    DeleteFilesCall(r, "deleteFiles", full_smb_path(req[r].path), "deleteDirectory")

\* lines 455-474
DeleteDirectory(r) ==
    DeleteDirectoryCall(r, "deleteDirectory", full_smb_path(req[r].path),
                        "CompositeDeleteFailure")

(***************************************************************************)
(* close_connections(), lines 480-487, run when the request's application  *)
(* context is popped, after the response has been produced.  Flask calls a *)
(* teardown_appcontext function with one argument, the exception or None,  *)
(* and close_connections is declared without parameters: where the call    *)
(* is made that way it raises TypeError before line 483 runs.  Both        *)
(* outcomes of the call are in the model.                                  *)
(***************************************************************************)
\* lines 480-481: the call of close_connections raises TypeError
TdCallFails(r) ==
    /\ req[r].pc = "td_check"
    /\ req' = [req EXCEPT ![r] = Idle]
    /\ UNCHANGED <<SMB_CONNECTION, open, fs, fresh, pin, pout>>

\* line 484: if SMB_CONNECTION is not None; the response has been sent and
\* of the request only the mark of a /hello is kept (history)
TdCheck(r) ==
    /\ req[r].pc = "td_check"
    /\ req' = [req EXCEPT ![r] =
                 IF SMB_CONNECTION # None
                 THEN [Idle EXCEPT !.pc = "td_close",
                                   !.op = IF req[r].op = "hello" THEN "hello" ELSE "none"]
                 ELSE Idle]
    /\ UNCHANGED <<SMB_CONNECTION, open, fs, fresh, pin, pout>>

\* line 486: SMB_CONNECTION.close(); on None the AttributeError ends the
\* teardown
TdClose(r) ==
    /\ req[r].pc = "td_close"
    /\ IF SMB_CONNECTION = None
       THEN /\ req' = [req EXCEPT ![r] = Idle]
            /\ UNCHANGED open
       ELSE /\ open' = open \ {SMB_CONNECTION}
            /\ req' = [req EXCEPT ![r].pc = "td_clear"]
    /\ UNCHANGED <<SMB_CONNECTION, fs, fresh, pin, pout>>

\* line 487: SMB_CONNECTION = None
TdClear(r) ==
    /\ req[r].pc = "td_clear"
    /\ SMB_CONNECTION' = None
    /\ req' = [req EXCEPT ![r] = Idle]
    /\ UNCHANGED <<open, fs, fresh, pin, pout>>

(***************************************************************************)
(* The gateway: any thread takes its next step.                            *)
(***************************************************************************)
Acquire(r) ==
    \/ AcqCheck(r)
    \/ AcqEcho(r)
    \/ AcqReuse(r)
    \/ AcqMisClose(r)
    \/ AcqExcCheck(r)
    \/ AcqHandlerClose(r)
    \/ AcqClear(r)
    \/ AcqConnectOk(r)
    \/ AcqConnectFail(r)
    \/ AcqAssign(r)
    \/ AcqReturn(r)

\* the request being served has its parameters from the given sets
Start(r, listpaths, paths, bodies, track) ==
    \/ StartList(r, listpaths)
    \/ StartCreate(r, paths, bodies)
    \/ StartGet(r, paths)
    \/ StartRename(r, paths)
    \/ StartCopy(r, paths, track)
    \/ StartMove(r, paths, track)
    \/ StartDelete(r, paths)

Call(r) ==
    \/ ListPath(r)
    \/ CreateDirectory(r)
    \/ CreateStore(r)
    \/ GetRetrieve(r)
    \/ Rename(r)
    \/ CopyRetrieve(r)
    \/ CopyStore(r)
    \/ MoveRetrieve(r)
    \/ MoveStore(r)
    \/ MoveDeleteFiles(r)
    \/ MoveDeleteDirectory(r)
    \/ DeleteFiles(r)
    \/ DeleteDirectory(r)

Teardown(r) ==
    \/ TdCallFails(r)
    \/ TdCheck(r)
    \/ TdClose(r)
    \/ TdClear(r)

\* the threads of the server run concurrently; the requests name one path
\* and carry one body, and List lists the root
ConcPaths == { <<"a", ".", "t", "x", "t">> }
ConcBodies == { <<65>> }
RootPath == { <<"/">> }

Next ==
    \E r \in Req :
        \/ Hello(r)
        \/ Reject(r)
        \/ Enter(r)
        \/ Acquire(r)
        \/ Start(r, RootPath, ConcPaths, ConcBodies, FALSE)
        \/ Call(r)
        \/ Teardown(r)

Spec == Init /\ [][Next]_vars

(***************************************************************************)
(* The gateway serving one request at a time: a request enters only when   *)
(* no other is being served.  The requests draw from all paths and bodies. *)
(***************************************************************************)
Serial(r) == \A q \in Req \ {r} : req[q].pc = "idle"

SerialEnter(r) == Serial(r) /\ (Hello(r) \/ Reject(r) \/ Enter(r))

NextSerial ==
    \E r \in Req :
        \/ SerialEnter(r)
        \/ Acquire(r)
        \/ Start(r, RootPath \cup RawPaths, RawPaths, Bodies, TRUE)
        \/ Call(r)
        \/ Teardown(r)

SpecSerial == Init /\ [][NextSerial]_vars

(***************************************************************************)
(* The path resolver on its own: an input is drawn and resolved, and the   *)
(* result is resolved again.                                               *)
(***************************************************************************)
PathChars == {"/", "a"}

PathInputs == UNION { [1..n -> PathChars] : n \in 0..MaxPathLen }

InitPath ==
    /\ SMB_CONNECTION = None
    /\ open = {}
    /\ fs = [l \in Locations |-> Absent]
    /\ fresh = [l \in Locations |-> NoBody]
    /\ req = [r \in Req |-> Idle]
    /\ pin \in PathInputs
    /\ pout = <<>>

\* full_path = _full_smb_path(path), then _full_smb_path(full_path)
Resolve ==
    /\ Len(pout) < 2
    /\ pout' = Append(pout, full_smb_path(IF pout = <<>> THEN pin ELSE pout[Len(pout)]))
    /\ UNCHANGED <<SMB_CONNECTION, open, fs, fresh, req, pin>>

NextPath == Resolve

SpecPath == InitPath /\ [][NextPath]_vars

(***************************************************************************)
(* The loop of list_files on its own: the remote enumeration is any        *)
(* sequence of at most MaxListLen entries with the names of ListNames.     *)
(***************************************************************************)
\* ".", "..", "...", ".a" and "a"
ListNames == { <<".">>, <<".", ".">>, <<".", ".", ".">>, <<".", "a">>, <<"a">> }

ListItems == [filename : ListNames, isDirectory : BOOLEAN]

ListInputs == UNION { [1..n -> ListItems] : n \in 0..MaxListLen }

InitList ==
    /\ SMB_CONNECTION = None
    /\ open = {}
    /\ fs = [l \in Locations |-> Absent]
    /\ fresh = [l \in Locations |-> NoBody]
    /\ req = [r \in Req |-> Idle]
    /\ pin \in ListInputs
    /\ pout = <<>>

\* lines 166-185: file_list is what listPath returned, files is the answer
ListLoop ==
    /\ pout = <<>>
    /\ pout' = <<ListEntries(pin)>>
    /\ UNCHANGED <<SMB_CONNECTION, open, fs, fresh, req, pin>>

NextList == ListLoop

SpecList == InitList /\ [][NextList]_vars

(***************************************************************************)
(* Properties.                                                             *)
(***************************************************************************)
\* the positions at which a thread is about to issue a pysmb call on the
\* session get_smb_connection() returned to it
CallPcs ==
    {"listPath", "createDirectory", "storeFile", "retrieveFile", "rename",
     "copy_retrieve", "copy_store", "move_retrieve", "move_store",
     "move_deleteFiles", "move_deleteDirectory", "deleteFiles", "deleteDirectory"}

\* thread r has acquired a session and still has calls to issue on it
Holds(r) == req[r].pc \in CallPcs /\ req[r].conn # None

\* thread r has produced its response
Responded(r) == req[r].pc = "td_check"

\* thread r has produced the response of a request that passed the checks
\* of its handler
Answered(r) == Responded(r) /\ req[r].kind # "ValidationError"

Src(r) == full_smb_path(req[r].path)
Dst(r) == full_smb_path(req[r].newPath)

\* C1: no two requests hold the same session at the same time: between a
\* request's acquire() and its last call no other request has calls to issue
\* on that session.
C1_ExclusiveSession ==
    \A r1, r2 \in Req :
        (r1 # r2 /\ Holds(r1) /\ Holds(r2)) => req[r1].conn # req[r2].conn

\* C2: at most one session is connected and not yet closed.
C2_AtMostOneSession == Cardinality(open) <= 1

\* C3: a request whose health probe failed on a session has, before its
\* first call, closed that session, made SMB_CONNECTION None and attempted
\* Connect exactly once, and it issues no call on the session that failed.
C3_ProbeFailureReconnectsOnce ==
    \A r \in Req :
        req[r].probed # None =>
            /\ req[r].pc = "connect" =>
                  /\ req[r].probed \notin open
                  /\ SMB_CONNECTION = None
                  /\ req[r].nconn = 0
            /\ (req[r].pc \in CallPcs \/ Responded(r)) =>
                  /\ req[r].probed \notin open
                  /\ req[r].nconn = 1
            /\ req[r].pc \in CallPcs => req[r].conn # req[r].probed
            /\ req[r].pc \notin CallPcs /\ ~Responded(r) => req[r].calls = <<>>

\* C4: the step at which Connect fails leaves SMB_CONNECTION None, ends the
\* request with an error, is the only Connect attempt of that acquire() and
\* is not followed or preceded by any pysmb call of the request.
C4_ConnectFailureAbsent ==
    [][\A r \in Req :
          (req[r].pc = "connect" /\ req'[r].pc = "td_check") =>
              /\ SMB_CONNECTION' = None
              /\ req'[r].status = 500
              /\ req'[r].kind = "ConnectionError"
              /\ req'[r].nconn = 1
              /\ req'[r].calls = <<>>]_vars

\* a Delete whose acquire() returned
DeleteRan(r) ==
    /\ req[r].op = "delete"
    /\ Responded(r)
    /\ req[r].kind \notin {"ValidationError", "ConnectionError", "AttributeError"}

\* C5: Delete calls deleteFiles first; it calls deleteDirectory if and only
\* if deleteFiles raised; it succeeds if either call succeeds; if both raise
\* the outcome is the composite failure carrying both causes.
C5_TolerantDelete ==
    \A r \in Req :
        /\ req[r].pc = "deleteFiles" => req[r].calls = <<>>
        /\ req[r].pc = "deleteDirectory" =>
              /\ Len(req[r].calls) = 1
              /\ req[r].calls[1].prim = "deleteFiles"
              /\ req[r].calls[1].res # "ok"
        /\ DeleteRan(r) =>
              LET c == req[r].calls IN
              /\ Len(c) \in {1, 2}
              /\ c[1].prim = "deleteFiles"
              /\ Len(c) = 2 <=> c[1].res # "ok"
              /\ Len(c) = 2 => c[2].prim = "deleteDirectory"
              /\ req[r].status = 200 <=> c[Len(c)].res = "ok"
              /\ req[r].status # 200 =>
                    /\ req[r].status = 500
                    /\ req[r].kind = "CompositeDeleteFailure"
                    /\ req[r].cause1 = Cause("deleteFiles", c[1].res)
                    /\ req[r].cause2 = Cause("deleteDirectory", c[2].res)

\* a Delete has answered with the composite failure
C5_Witness ==
    \E r \in Req :
        /\ DeleteRan(r)
        /\ req[r].kind = "CompositeDeleteFailure"
        /\ Len(req[r].calls) = 2

\* the copy step of a Move succeeded and both of its deletes raised
CopiedNotDeleted(r) ==
    /\ req[r].op = "move"
    /\ Responded(r)
    /\ Len(req[r].calls) = 4
    /\ req[r].calls[1] = Cause("retrieveFile", "ok")
    /\ req[r].calls[2] = Cause("storeFile", "ok")
    /\ req[r].calls[3].res # "ok"
    /\ req[r].calls[4].res # "ok"

\* C6: when the copy step of a Move succeeded and both deletes raised, the
\* outcome is the partial-move failure carrying both delete causes, never a
\* success; the source is still there and the destination holds the content
\* the source had.
C6_PartialMoveFailure ==
    \A r \in Req :
        CopiedNotDeleted(r) =>
            /\ req[r].status = 500
            /\ req[r].kind = "PartialMoveFailure"
            /\ req[r].cause1 = Cause("deleteFiles", req[r].calls[3].res)
            /\ req[r].cause2 = Cause("deleteDirectory", req[r].calls[4].res)
            /\ req[r].pre.kind = "file"
            /\ fs[Src(r)].kind = "file"
            /\ fs[Dst(r)] = File(req[r].pre.data)

\* a Move between two different locations has answered with the partial
\* failure
C6_Witness ==
    \E r \in Req :
        /\ CopiedNotDeleted(r)
        /\ Src(r) # Dst(r)
        /\ req[r].kind = "PartialMoveFailure"
        /\ req[r].pre.data # <<>>

\* C7: after a Move that reports success the destination holds the content
\* the source had before the Move, and the source is gone.
C7_MoveEquivalence ==
    \A r \in Req :
        (req[r].op = "move" /\ Responded(r) /\ req[r].status = 200) =>
            /\ req[r].pre.kind = "file"
            /\ fs[Dst(r)] = File(req[r].pre.data)
            /\ fs[Src(r)].kind = "absent"

\* C8: a Get that reads a location whose content is the body B of a
\* successful Create, untouched since, answers 200 with exactly B.
C8_CreateGetRoundTrip ==
    \A r \in Req :
        (req[r].op = "get" /\ Responded(r) /\ req[r].want # NoBody) =>
            /\ req[r].status = 200
            /\ req[r].data = req[r].want

\* C9: a session is not closed while a request holds it with calls still to
\* issue.
C9_HeldSessionStaysOpen ==
    \A r \in Req : Holds(r) => req[r].conn \in open

\* C10: resolving a resolved path changes nothing; "" and "/" resolve to the
\* share root; every result is "/" followed by the input without its leading
\* separators.
C10_ResolveIdempotent ==
    /\ Len(pout) = 2 => pout[2] = pout[1]
    /\ (Len(pout) >= 1 /\ pin \in {<<>>, <<"/">>}) => pout[1] = <<"/">>
    /\ Len(pout) >= 1 =>
          \E k \in 0..Len(pin) :
              /\ \A i \in 1..k : pin[i] = "/"
              /\ k < Len(pin) => pin[k + 1] # "/"
              /\ pout[1] = <<"/">> \o SubSeq(pin, k + 1, Len(pin))

\* C11: a request that lacks a required parameter is answered with the
\* validation failure and nothing else happens for it: it never is inside
\* get_smb_connection(), it probes nothing, connects nothing, holds no
\* session and issues no pysmb call.
C11_MissingParameterRejected ==
    \A r \in Req :
        req[r].missing =>
            /\ Responded(r)
            /\ req[r].status = 400
            /\ req[r].kind = "ValidationError"
            /\ req[r].calls = <<>>
            /\ req[r].nconn = 0
            /\ req[r].probed = None
            /\ req[r].conn = None
            /\ req[r].newconn = None

\* a Move without share_name has been rejected while a session is open and
\* another request is inside get_smb_connection()
C11_Witness ==
    \E r, q \in Req :
        /\ req[r].missing
        /\ req[r].op = "move"
        /\ Responded(r)
        /\ SMB_CONNECTION \in open
        /\ req[q].pc = "echo"

C14_MatchReusesSession ==
    [][\A r \in Req :
          /\ (req[r].pc = "check" /\ req'[r].pc # "check" /\ SMB_CONNECTION \in open)
                 => req'[r].pc = "echo"
          /\ (req[r].pc = "echo" /\ req'[r].pc = "reuse")
                 => /\ req'[r].matched = SMB_CONNECTION
                    /\ SMB_CONNECTION' = SMB_CONNECTION
                    /\ open' = open
          /\ (req[r].pc = "reuse" /\ req'[r].pc # "reuse")
                 => /\ req'[r].pc = "acquired"
                    /\ req'[r].conn = req[r].matched
                    /\ SMB_CONNECTION' = req[r].matched
                    /\ req[r].matched \in open'
                    /\ req'[r].nconn = 0]_vars

\* a pysmb call of request r has raised a connection-level fault
Faulted(r) ==
    \E i \in 1..Len(req[r].calls) : req[r].calls[i].res = "NotConnectedError"

\* C15: a request issues no further pysmb call after one of its calls
\* raised a connection-level fault, unless the session it is about to use
\* is another one than the session that faulted, connected since and now
\* the current one.
C15_FaultReplacesSession ==
    \A r \in Req :
        (Faulted(r) /\ req[r].pc \in CallPcs) =>
            /\ req[r].conn \in open
            /\ req[r].conn = SMB_CONNECTION
            /\ req[r].nconn >= 1

\* C16: a Copy reads its source and then writes its destination, in that
\* order; when the read raises, no write is issued, the destination is what
\* it was and the outcome is a failure; the Copy succeeds only if both calls
\* did; and from the first call to the response the source is what it was
\* before the Copy.
C16_CopyKeepsSource ==
    \A r \in Req :
        req[r].op = "copy" =>
            /\ req[r].pc = "copy_retrieve" => req[r].calls = <<>>
            /\ req[r].pc = "copy_store" =>
                  /\ req[r].calls = <<Cause("retrieveFile", "ok")>>
                  /\ req[r].buf = req[r].pre.data
                  /\ fs[Dst(r)] = req[r].preDst
            /\ Answered(r) =>
                  LET c == req[r].calls IN
                  /\ Len(c) \in {1, 2}
                  /\ c[1].prim = "retrieveFile"
                  /\ Len(c) = 2 <=> c[1].res = "ok"
                  /\ Len(c) = 2 => c[2].prim = "storeFile"
                  /\ c[1].res # "ok" => fs[Dst(r)] = req[r].preDst
                  /\ req[r].status = 200 <=> c[Len(c)].res = "ok"
                  /\ req[r].status # 200 => req[r].status = 500
            /\ (req[r].pc \in {"copy_retrieve", "copy_store"} \/ Answered(r)) =>
                  fs[Src(r)] = req[r].pre

\* the positions of a thread inside the teardown of its request scope
TdPcs == {"td_check", "td_close", "td_clear"}

\* C17: the teardown of a request scope that finds no session changes
\* nothing; one that finds a session closes it and then makes
\* SMB_CONNECTION None; every teardown ends with SMB_CONNECTION None and
\* with no open session dropped; and a get_smb_connection() that finds
\* None connects without a probe.
C17_TeardownLeavesAbsent ==
    [][\A r \in Req :
          /\ (req[r].pc = "td_check" /\ req'[r].pc # "td_check") =>
                 IF SMB_CONNECTION = None
                 THEN /\ req'[r].pc = "idle"
                      /\ SMB_CONNECTION' = None
                      /\ open' = open
                 ELSE req'[r].pc = "td_close"
          /\ (req[r].pc = "td_close" /\ req'[r].pc # "td_close") =>
                 /\ SMB_CONNECTION # None
                 /\ open' = open \ {SMB_CONNECTION}
                 /\ req'[r].pc = "td_clear"
          /\ (req[r].pc = "td_clear" /\ req'[r].pc # "td_clear") =>
                 /\ SMB_CONNECTION \notin open
                 /\ req'[r].pc = "idle"
          /\ (req[r].pc \in TdPcs /\ req'[r].pc = "idle") => SMB_CONNECTION' = None
          /\ (req[r].pc = "check" /\ req'[r].pc # "check" /\ SMB_CONNECTION = None) =>
                 req'[r].pc = "connect"]_vars

\* the one pysmb call of a List, Create, Get or Rename
SingleCall(rq) ==
    CASE rq.op = "list" -> "listPath"
      [] rq.op = "create" -> IF rq.isDir THEN "createDirectory" ELSE "storeFile"
      [] rq.op = "get" -> "retrieveFile"
      [] rq.op = "rename" -> "rename"

\* C18: a List, Create, Get or Rename issues its pysmb call exactly once;
\* when the call raises, the answer is the failure that carries the cause,
\* with no payload; the answer is a success only if the call succeeded.
C18_FaultsPropagate ==
    \A r \in Req :
        (req[r].op \in {"list", "create", "get", "rename"} /\ Answered(r)) =>
            LET c == req[r].calls IN
            /\ Len(c) = 1
            /\ c[1].prim = SingleCall(req[r])
            /\ c[1].res # "ok" =>
                  /\ req[r].status = 500
                  /\ req[r].kind = "RemoteOperationError"
                  /\ req[r].cause1 = Cause(c[1].prim, c[1].res)
                  /\ req[r].data = <<>>
            /\ req[r].status = 200 => c[1].res = "ok"
            /\ req[r].status \in {200, 500}

\* a Get of a file that is there has failed with the fault of its
\* retrieveFile
C18_Witness ==
    \E r \in Req :
        /\ req[r].op = "get"
        /\ Answered(r)
        /\ req[r].calls = <<Cause("retrieveFile", "OperationFailure")>>
        /\ req[r].status = 500
        /\ fs[Src(r)].kind = "file"
        /\ fs[Src(r)].data # <<>>

\* the positions of a thread that serves a Move
MovePcs == {"move_retrieve", "move_store", "move_deleteFiles", "move_deleteDirectory"}

\* C19: a Move issues a delete on its source only after its read of the
\* source and its write of the destination both succeeded; and while and
\* after a Move of a file runs alone, the content the source had is at the
\* source or at the destination.
C19_MoveKeepsData ==
    \A r \in Req :
        req[r].op = "move" =>
            /\ req[r].pc \in {"move_deleteFiles", "move_deleteDirectory"} =>
                  /\ Len(req[r].calls) >= 2
                  /\ req[r].calls[1] = Cause("retrieveFile", "ok")
                  /\ req[r].calls[2] = Cause("storeFile", "ok")
            /\ \A i \in 1..Len(req[r].calls) :
                  req[r].calls[i].prim \in {"deleteFiles", "deleteDirectory"} =>
                      /\ i >= 3
                      /\ req[r].calls[1] = Cause("retrieveFile", "ok")
                      /\ req[r].calls[2] = Cause("storeFile", "ok")
            /\ ( /\ req[r].pre.kind = "file"
                 /\ req[r].pc \in MovePcs \/ Answered(r) ) =>
                  \/ fs[Src(r)] = req[r].pre
                  \/ fs[Dst(r)] = req[r].pre

\* C20: every session that is connected and not closed is the one
\* SMB_CONNECTION refers to, or has just been connected by a thread that
\* assigns it next; the assignment of a new session never overwrites a
\* session that is still open; and get_smb_connection() never returns a
\* closed session.
C20_NoSessionLeak ==
    [][/\ \A s \in open' :
             \/ s = SMB_CONNECTION'
             \/ \E r \in Req : req'[r].pc = "assign" /\ req'[r].newconn = s
       /\ \A r \in Req :
             /\ (req[r].pc = "assign" /\ req'[r].pc # "assign")
                    => SMB_CONNECTION \notin open
             /\ (req[r].pc \in {"reuse", "return"} /\ req'[r].pc = "acquired")
                    => req'[r].conn \in open']_vars

\* the number of positions of the sequence s that hold x
Count(s, x) == Cardinality({ i \in 1..Len(s) : s[i] = x })

\* C12: whatever the remote enumeration is, the List result has no entry
\* named "." or "..", and every other enumerated entry is in it as many
\* times as it was enumerated (once per enumerated entry), nothing else.
C12_ListOmitsDotEntries ==
    Len(pout) = 1 =>
        LET files == pout[1]
            dots == {<<".">>, <<".", ".">>}
            others == { i \in 1..Len(pin) : pin[i].filename \notin dots }
        IN  /\ \A i \in 1..Len(files) : files[i].name \notin dots
            /\ Len(files) = Cardinality(others)
            /\ \A i \in others :
                  LET e == [name |-> pin[i].filename, is_dir |-> pin[i].isDirectory]
                  IN  Count(files, e) =
                        Cardinality({ j \in others : pin[j] = pin[i] })

\* an enumeration with ".", ".." and "..." has been filtered
C12_Witness ==
    /\ Len(pout) = 1
    /\ \E i, j, k \in 1..Len(pin) :
          /\ pin[i].filename = <<".">>
          /\ pin[j].filename = <<".", ".">>
          /\ pin[k].filename = <<".", ".", ".">>
    /\ Len(pout[1]) = 1

\* a path with two leading separators has been resolved twice
C10_Witness ==
    /\ Len(pin) >= 3
    /\ pin[1] = "/"
    /\ pin[2] = "/"
    /\ pin[3] = "a"
    /\ Len(pout) = 2

====
